---- MODULE Spec2Model ----
(***************************************************************************)
(* Model of encoders/resnet.py: the 3-D ResNet encoder.                    *)
(*                                                                         *)
(* A module of the network is modelled by the record of the attributes its *)
(* constructor sets; a container (nn.Sequential, nn.ModuleList) by the     *)
(* sequence of the modules it holds.  Two state machines are given:        *)
(*   Spec      - construction of an encoder (ResNetEncoder, resnet18,      *)
(*               resnet34) and the forward pass through it, on tensor      *)
(*               shapes (channels, spatial size);                          *)
(*   SpecBlock - the forward pass of the base ResidualBlock on tensor      *)
(*               values, with the aliasing of in-place operations.         *)
(***************************************************************************)
EXTENDS Integers, Sequences, FiniteSets, TLC

\* ------------------------------------------------------------------ bounds
\* largest entry of blocks_sizes
MaxChan == 2
\* largest length of blocks_sizes and of depths
MaxLayers == 2
\* largest entry of depths
MaxDepth == 2
\* largest absolute value of an element of the tensor given to a block
MaxVal == 2

\* ------------------------------------------------------------ leaf modules
Activations == {"ReLU", "leaky_ReLU", "SeLU", "none"}

\* nn.Conv3d(cin, cout, kernel_size=k, stride=s, padding=p, bias=False)
Conv3d(cin, cout, k, s, p) ==
    [op |-> "conv", cin |-> cin, cout |-> cout, kernel |-> k, stride |-> s,
     padding |-> p, fn |-> "none"]

\* Conv3dAuto: the padding is overwritten with kernel_size // 2
Conv3dAuto(cin, cout, k, s) == Conv3d(cin, cout, k, s, k \div 2)

\* conv3x3 = partial(Conv3dAuto, kernel_size=3, bias=False); a caller's
\* kernel_size keyword overrides the partial's
conv3x3(cin, cout, k, s) == Conv3dAuto(cin, cout, k, s)

\* nn.BatchNorm3d(c): keeps the shape
BatchNorm3d(c) ==
    [op |-> "bn", cin |-> c, cout |-> c, kernel |-> 1, stride |-> 1,
     padding |-> 0, fn |-> "none"]

\* activation_func(activation): the module stored under that key; cin = 0
\* stands for "any number of channels"
activation_func(activation) ==
    [op |-> "act", cin |-> 0, cout |-> 0, kernel |-> 1, stride |-> 1,
     padding |-> 0, fn |-> activation]

\* nn.Identity()
Identity ==
    [op |-> "identity", cin |-> 0, cout |-> 0, kernel |-> 1, stride |-> 1,
     padding |-> 0, fn |-> "none"]

\* nn.MaxPool3d(kernel_size=3, stride=2, padding=1)
MaxPool3d(k, s, p) ==
    [op |-> "maxpool", cin |-> 0, cout |-> 0, kernel |-> k, stride |-> s,
     padding |-> p, fn |-> "none"]

\* conv_bn(in_channels, out_channels, conv, kernel_size, stride)
conv_bn(cin, cout, k, s) == << conv3x3(cin, cout, k, s), BatchNorm3d(cout) >>

\* ------------------------------------------------------------------ blocks
BlockKinds == {"ResNetBasicBlock", "ResNetBottleNeckBlock"}

\* mutant: the bottleneck class keeps the expansion of the basic block
ClassExpansionOne(block) == 1

\* the class attribute `expansion` of a block class
ClassExpansion(block) == IF block = "ResNetBasicBlock" THEN 1 ELSE 4

\* the `expansion` argument that reaches ResNetResidualBlock.__init__
InitExpansion(block) == IF block = "ResNetBasicBlock" THEN 1 ELSE 4

\* ResNetResidualBlock.expanded_channels
expanded_channels(out_channels, expansion) == out_channels * expansion

\* ResidualBlock.__init__: blocks and shortcut are nn.Identity()
NewResidualBlock(in_channels, out_channels, activation) ==
    [kind         |-> "ResidualBlock",
     in_channels  |-> in_channels,
     out_channels |-> out_channels,
     activation   |-> activation,
     activate     |-> activation_func(activation),
     shortcut     |-> << Identity >>,
     blocks       |-> << Identity >>]

\* ResidualBlock.should_apply_shortcut
ResidualBlock_should_apply_shortcut(b) == b.in_channels # b.out_channels

\* ResNetResidualBlock.should_apply_shortcut
ResNetResidualBlock_should_apply_shortcut(b) ==
    b.in_channels # expanded_channels(b.out_channels, b.expansion)

\* self.should_apply_shortcut: the property of the object's class
should_apply_shortcut(b) ==
    IF b.kind = "ResidualBlock"
    THEN ResidualBlock_should_apply_shortcut(b)
    ELSE ResNetResidualBlock_should_apply_shortcut(b)

\* ResNetResidualBlock.__init__: the shortcut, << >> standing for None
ResNetShortcut(in_channels, out_channels, expansion, downsampling) ==
    IF in_channels # expanded_channels(out_channels, expansion)
    THEN << Conv3d(in_channels, expanded_channels(out_channels, expansion),
                   1, downsampling, 0),
            BatchNorm3d(expanded_channels(out_channels, expansion)) >>
    ELSE << >>

\* mutant: no activation between the two convolutions
BasicBlocksNoActivation(in_channels, out_channels, expansion, downsampling, activation) ==
    conv_bn(in_channels, out_channels, 3, downsampling)
    \o conv_bn(out_channels, expanded_channels(out_channels, expansion), 3, 1)

\* ResNetBasicBlock.__init__: self.blocks
BasicBlocks(in_channels, out_channels, expansion, downsampling, activation) ==
    conv_bn(in_channels, out_channels, 3, downsampling)
    \o << activation_func(activation) >>
    \o conv_bn(out_channels, expanded_channels(out_channels, expansion), 3, 1)

\* ResNetBottleNeckBlock.__init__: self.blocks
BottleNeckBlocks(in_channels, out_channels, expansion, downsampling, activation) ==
    conv_bn(in_channels, out_channels, 1, 1)
    \o << activation_func(activation) >>
    \o conv_bn(out_channels, out_channels, 3, downsampling)
    \o << activation_func(activation) >>
    \o conv_bn(out_channels, expanded_channels(out_channels, expansion), 1, 1)

\* block(in_channels, out_channels, activation=..., downsampling=...)
NewBlock(block, in_channels, out_channels, downsampling, activation) ==
    [kind         |-> block,
     in_channels  |-> in_channels,
     out_channels |-> out_channels,
     expansion    |-> InitExpansion(block),
     downsampling |-> downsampling,
     activation   |-> activation,
     activate     |-> activation_func(activation),
     shortcut     |-> ResNetShortcut(in_channels, out_channels,
                                     InitExpansion(block), downsampling),
     blocks       |-> IF block = "ResNetBasicBlock"
                      THEN BasicBlocks(in_channels, out_channels,
                                       InitExpansion(block), downsampling,
                                       activation)
                      ELSE BottleNeckBlocks(in_channels, out_channels,
                                            InitExpansion(block), downsampling,
                                            activation)]

\* ------------------------------------------------------------------ layers
\* mutant: range(n) where the code has range(n - 1)
RangeLenOffByOne(n) == IF n + 1 > 0 THEN n + 1 ELSE 0

\* range(n - 1): the number of iterations of the comprehension
RangeLen(n) == IF n > 0 THEN n ELSE 0

\* mutant: every layer downsamples
LayerDownsamplingAlways(in_channels, out_channels) == 2

\* downsampling = 2 if in_channels != out_channels else 1
LayerDownsampling(in_channels, out_channels) ==
    IF in_channels # out_channels THEN 2 ELSE 1

\* ResNetLayer.__init__: self.blocks
ResNetLayer(in_channels, out_channels, block, n, activation) ==
    << NewBlock(block, in_channels, out_channels,
                LayerDownsampling(in_channels, out_channels), activation) >>
    \o [ k \in 1..RangeLen(n - 1) |->
           NewBlock(block, out_channels * ClassExpansion(block), out_channels,
                    1, activation) ]

\* ----------------------------------------------------------------- encoder
Min(a, b) == IF a < b THEN a ELSE b

\* the gate of ResNetEncoder
Gate(in_channels, blocks_sizes, activation) ==
    << Conv3d(in_channels, blocks_sizes[1], 7, 2, 3),
       BatchNorm3d(blocks_sizes[1]),
       activation_func(activation),
       MaxPool3d(3, 2, 1) >>

\* zip(zip(blocks_sizes, blocks_sizes[1:]), depths[1:]): its length
ZipLen(blocks_sizes, depths) == Min(Len(blocks_sizes) - 1, Len(depths) - 1)

\* ResNetEncoder.__init__: self.blocks (indices are 1-based here)
EncoderBlocks(blocks_sizes, depths, block, activation) ==
    << ResNetLayer(blocks_sizes[1], blocks_sizes[1], block, depths[1],
                   activation) >>
    \o [ i \in 1..ZipLen(blocks_sizes, depths) |->
           ResNetLayer(blocks_sizes[i] * ClassExpansion(block),
                       blocks_sizes[i + 1], block, depths[i + 1], activation) ]

\* ResNetEncoder(in_channels, blocks_sizes, depths, activation, block)
ResNetEncoder(in_channels, blocks_sizes, depths, activation, block) ==
    [built        |-> TRUE,
     in_channels  |-> in_channels,
     blocks_sizes |-> blocks_sizes,
     depths       |-> depths,
     block        |-> block,
     gate         |-> Gate(in_channels, blocks_sizes, activation),
     blocks       |-> EncoderBlocks(blocks_sizes, depths, block, activation)]

\* the default blocks_sizes of ResNetEncoder
DefaultBlocksSizes == << 64, 128, 256, 512 >>

\* ---------------------------------------------------------- tensor shapes
\* a tensor is known by its channels and its (cubic) spatial size; ok is
\* FALSE once an operation has raised
Tensor(channels, size) == [ok |-> TRUE, channels |-> channels, size |-> size]

Raised == [ok |-> FALSE, channels |-> 0, size |-> 0]

\* output size of a convolution or pooling window
OutSize(m, size) == (size + 2 * m.padding - m.kernel) \div m.stride + 1

\* module(t) for a leaf module
ApplyOp(m, t) ==
    IF ~t.ok THEN Raised
    ELSE IF m.op = "conv"
    THEN IF t.channels # m.cin \/ t.size + 2 * m.padding < m.kernel
         THEN Raised
         ELSE Tensor(m.cout, OutSize(m, t.size))
    ELSE IF m.op = "bn"
    THEN IF t.channels # m.cin THEN Raised ELSE t
    ELSE IF m.op = "maxpool"
    THEN IF t.size + 2 * m.padding < m.kernel
         THEN Raised
         ELSE Tensor(t.channels, OutSize(m, t.size))
    ELSE t

\* nn.Sequential.forward: the modules in order, each on the output of the
\* one before
RECURSIVE ApplySeq(_, _)
ApplySeq(ms, t) ==
    IF ms = << >> THEN t ELSE ApplySeq(Tail(ms), ApplyOp(Head(ms), t))

\* x += residual: in place, so residual must broadcast to the shape of x
AddOk(t, r) ==
    /\ t.ok /\ r.ok
    /\ (r.channels = t.channels \/ r.channels = 1)
    /\ (r.size = t.size \/ r.size = 1)

\* the entry of the trace for `x += residual`
AddOp ==
    [op |-> "add", cin |-> 0, cout |-> 0, kernel |-> 1, stride |-> 1,
     padding |-> 0, fn |-> "none"]

resnet18(in_channels, block) ==
    ResNetEncoder(in_channels, DefaultBlocksSizes, << 2, 2, 2, 2 >>, "ReLU", block)

resnet34(in_channels, block) ==
    ResNetEncoder(in_channels, DefaultBlocksSizes, << 3, 4, 6, 3 >>, "ReLU", block)

\* ------------------------------------------------------------------ inputs
RECURSIVE SeqsUpTo(_, _)
SeqsUpTo(S, n) ==
    IF n = 0 THEN { << >> }
    ELSE LET shorter == SeqsUpTo(S, n - 1)
         IN  shorter \cup { Append(q, e) : q \in shorter, e \in S }

\* blocks_sizes and depths are indexed at [0]: neither is empty
BlocksSizesInputs == SeqsUpTo(1..MaxChan, MaxLayers) \ { << >> }
DepthsInputs == SeqsUpTo(0..MaxDepth, MaxLayers) \ { << >> }
\* in_channels: the default and the one of the module's own main
InChannels == {1, 3}
\* activation: the default and the identity
ActivationInputs == {"ReLU", "none"}
\* spatial size of the tensor given to forward
InputSizes == {9}

\* ------------------------------------------------------------------- state
VARIABLES
    enc,        \* the encoder, once built
    pc,         \* "new", "built", then the line of forward to run next
    li, bi,     \* the layer and the block of it whose forward is running
    x,          \* the local x of the running forward
    residual,   \* the local residual of the running block forward
    trace,      \* modules applied to x by the running block forward
    applied,    \* << layer, block >> of the block forwards that returned
    ctor,       \* the function that built enc
    blk,        \* SpecBlock: the block whose forward runs
    heap,       \* SpecBlock: the value held by each tensor object
    bx, bres,   \* SpecBlock: the objects the locals x and residual name
    bpc,        \* SpecBlock: the line of forward to run next
    x0,         \* SpecBlock: the value of the input when forward was called
    steps       \* SpecBlock: the calls forward has made, in order

encVars == << enc, pc, li, bi, x, residual, trace, applied, ctor >>
blockVars == << blk, heap, bx, bres, bpc, x0, steps >>
vars == << encVars, blockVars >>

NoEncoder == [built |-> FALSE]

Init ==
    /\ enc = NoEncoder
    /\ pc = "new"
    /\ li = 0 /\ bi = 0
    /\ x = Raised /\ residual = Raised
    /\ trace = << >>
    /\ applied = << >>
    /\ ctor = "none"
    /\ blk = NewResidualBlock(1, 1, "none")
    /\ heap = [r \in 1..3 |-> 0]
    /\ bx = 1 /\ bres = 1
    /\ bpc = "idle"
    /\ x0 = 0
    /\ steps = << >>

Built(e, f) ==
    /\ enc' = e
    /\ ctor' = f
    /\ pc' = "built"
    /\ UNCHANGED << li, bi, x, residual, trace, applied >>
    /\ UNCHANGED blockVars

\* a call of ResNetEncoder(...)
NewResNetEncoder ==
    /\ pc = "new"
    /\ \E c \in InChannels, s \in BlocksSizesInputs, d \in DepthsInputs,
          a \in ActivationInputs, b \in BlockKinds :
           Built(ResNetEncoder(c, s, d, a, b), "ResNetEncoder")

\* a call of resnet18(in_channels, block)
NewResnet18 ==
    /\ pc = "new"
    /\ \E c \in InChannels, b \in BlockKinds : Built(resnet18(c, b), "resnet18")

\* a call of resnet34(in_channels, block)
NewResnet34 ==
    /\ pc = "new"
    /\ \E c \in InChannels, b \in BlockKinds : Built(resnet34(c, b), "resnet34")

CurBlock == enc.blocks[li][bi]

\* ResNetEncoder.forward: x = self.gate(x), then the first layer is entered
EncoderForward ==
    /\ pc = "built"
    /\ \E size \in InputSizes :
         x' = ApplySeq(enc.gate, Tensor(enc.in_channels, size))
    /\ pc' = IF x'.ok THEN "shortcut" ELSE "error"
    /\ li' = 1 /\ bi' = 1
    /\ trace' = << >>
    /\ UNCHANGED << enc, residual, applied, ctor >>
    /\ UNCHANGED blockVars

\* ResidualBlock.forward: residual = x; if self.should_apply_shortcut:
\* residual = self.shortcut(x)       (None is not callable)
BlockShortcut ==
    /\ pc = "shortcut"
    /\ residual' = IF should_apply_shortcut(CurBlock)
                   THEN IF CurBlock.shortcut = << >> THEN Raised
                        ELSE ApplySeq(CurBlock.shortcut, x)
                   ELSE x
    /\ pc' = IF residual'.ok THEN "blocks" ELSE "error"
    /\ trace' = << >>
    /\ UNCHANGED << enc, li, bi, x, applied, ctor >>
    /\ UNCHANGED blockVars

\* ResidualBlock.forward: x = self.blocks(x)
BlockBlocks ==
    /\ pc = "blocks"
    /\ x' = ApplySeq(CurBlock.blocks, x)
    /\ pc' = IF x'.ok THEN "add" ELSE "error"
    /\ trace' = trace \o CurBlock.blocks
    /\ UNCHANGED << enc, li, bi, residual, applied, ctor >>
    /\ UNCHANGED blockVars

\* ResidualBlock.forward: x += residual
BlockAdd ==
    /\ pc = "add"
    /\ pc' = IF AddOk(x, residual) THEN "activate" ELSE "error"
    /\ x' = IF AddOk(x, residual) THEN x ELSE Raised
    /\ trace' = Append(trace, AddOp)
    /\ UNCHANGED << enc, li, bi, residual, applied, ctor >>
    /\ UNCHANGED blockVars

\* ResidualBlock.forward: x = self.activate(x); return x.  The caller
\* (nn.Sequential of the layer, then the loop of ResNetEncoder.forward)
\* goes on to the next block, the next layer, or returns.
BlockActivate ==
    /\ pc = "activate"
    /\ x' = ApplyOp(CurBlock.activate, x)
    /\ trace' = Append(trace, CurBlock.activate)
    /\ applied' = Append(applied, << li, bi >>)
    /\ IF bi < Len(enc.blocks[li])
       THEN li' = li /\ bi' = bi + 1 /\ pc' = "shortcut"
       ELSE IF li < Len(enc.blocks)
       THEN li' = li + 1 /\ bi' = 1 /\ pc' = "shortcut"
       ELSE li' = li /\ bi' = bi /\ pc' = "return"
    /\ UNCHANGED << enc, residual, ctor >>
    /\ UNCHANGED blockVars

Next ==
    \/ NewResNetEncoder
    \/ NewResnet18
    \/ NewResnet34
    \/ EncoderForward
    \/ BlockShortcut
    \/ BlockBlocks
    \/ BlockAdd
    \/ BlockActivate

Spec == Init /\ [][Next]_vars

\* ------------------------------------------------- block forward on values
\* A tensor is reduced to one element.  A convolution (bias=False) is a
\* linear map, here the single weight -2; a batch normalization is an affine
\* map, here v + 1.
ActVal(fn, v) ==
    CASE fn = "ReLU" -> IF v > 0 THEN v ELSE 0
      [] fn = "none" -> v

ApplyOpVal(m, v) ==
    CASE m.op = "conv" -> (0 - 2) * v
      [] m.op = "bn"   -> v + 1
      [] m.op = "act"  -> ActVal(m.fn, v)
      [] OTHER         -> v

RECURSIVE ApplySeqVal(_, _)
ApplySeqVal(ms, v) ==
    IF ms = << >> THEN v ELSE ApplySeqVal(Tail(ms), ApplyOpVal(Head(ms), v))

\* convolution, batch normalization and pooling return a new tensor; the
\* activations (inplace=True) and nn.Identity return their argument
MakesNew(m) == m.op \in {"conv", "bn", "maxpool"}

\* the number of leading modules of ms that work on the argument itself
RECURSIVE InPlacePrefix(_)
InPlacePrefix(ms) ==
    IF ms = << >> \/ MakesNew(Head(ms)) THEN 0 ELSE 1 + InPlacePrefix(Tail(ms))

\* module(t): the object returned, t being object r and fresh the next
\* unused object
CallRef(ms, r, fresh) == IF InPlacePrefix(ms) = Len(ms) THEN r ELSE fresh

\* module(t): the heap after the call
CallHeap(ms, h, r, fresh) ==
    LET n  == InPlacePrefix(ms)
        h1 == [h EXCEPT ![r] = ApplySeqVal(SubSeq(ms, 1, n), h[r])]
    IN  IF n = Len(ms) THEN h1
        ELSE [h1 EXCEPT ![fresh] = ApplySeqVal(SubSeq(ms, n + 1, Len(ms)), h1[r])]

\* mutant: x = residual where the code has x += residual
IAssign(h, xr, rr) == [h EXCEPT ![xr] = h[rr]]

\* x += residual: in place on the object x names
IAdd(h, xr, rr) == [h EXCEPT ![xr] = h[xr] + h[rr]]

AllKinds == BlockKinds \cup {"ResidualBlock"}

\* a block as its class builds it
MakeBlock(kind, in_channels, out_channels, downsampling, activation) ==
    IF kind = "ResidualBlock"
    THEN NewResidualBlock(in_channels, out_channels, activation)
    ELSE NewBlock(kind, in_channels, out_channels, downsampling, activation)

\* block(x) is called: residual = x
ForwardCall ==
    /\ bpc = "idle"
    /\ \E kind \in AllKinds, i \in 1..MaxChan, o \in 1..MaxChan,
          d \in {1, 2}, a \in ActivationInputs, v \in (0 - MaxVal)..MaxVal :
         /\ blk' = MakeBlock(kind, i, o, d, a)
         /\ heap' = [r \in 1..3 |-> IF r = 1 THEN v ELSE 0]
         /\ x0' = v
    /\ bx' = 1 /\ bres' = 1
    /\ steps' = << >>
    /\ bpc' = IF should_apply_shortcut(blk') THEN "shortcut" ELSE "blocks"
    /\ UNCHANGED encVars

\* residual = self.shortcut(x)
ForwardShortcut ==
    /\ bpc = "shortcut"
    /\ blk.shortcut # << >>
    /\ heap' = CallHeap(blk.shortcut, heap, bx, 2)
    /\ bres' = CallRef(blk.shortcut, bx, 2)
    /\ steps' = Append(steps, "shortcut")
    /\ bpc' = "blocks"
    /\ UNCHANGED << blk, bx, x0 >>
    /\ UNCHANGED encVars

\* x = self.blocks(x)
ForwardBlocks ==
    /\ bpc = "blocks"
    /\ heap' = CallHeap(blk.blocks, heap, bx, 3)
    /\ bx' = CallRef(blk.blocks, bx, 3)
    /\ steps' = Append(steps, "blocks")
    /\ bpc' = "add"
    /\ UNCHANGED << blk, bres, x0 >>
    /\ UNCHANGED encVars

\* x += residual
ForwardAdd ==
    /\ bpc = "add"
    /\ heap' = IAdd(heap, bx, bres)
    /\ steps' = Append(steps, "add")
    /\ bpc' = "activate"
    /\ UNCHANGED << blk, bx, bres, x0 >>
    /\ UNCHANGED encVars

\* x = self.activate(x); return x
ForwardActivate ==
    /\ bpc = "activate"
    /\ heap' = CallHeap(<< blk.activate >>, heap, bx, 3)
    /\ bx' = CallRef(<< blk.activate >>, bx, 3)
    /\ steps' = Append(steps, "activate")
    /\ bpc' = "done"
    /\ UNCHANGED << blk, bres, x0 >>
    /\ UNCHANGED encVars

NextBlock ==
    \/ ForwardCall
    \/ ForwardShortcut
    \/ ForwardBlocks
    \/ ForwardAdd
    \/ ForwardActivate

SpecBlock == Init /\ [][NextBlock]_vars

\* ------------------------------------------------------------------ claims
\* the number of blocks of each layer of an encoder
LayerSizes(e) == [i \in 1..Len(e.blocks) |-> Len(e.blocks[i])]

\* the blocks of an encoder in the order forward applies them
RECURSIVE Concat(_)
Concat(ls) == IF ls = << >> THEN << >> ELSE Head(ls) \o Concat(Tail(ls))

\* << layer, block >> of every block, layer by layer
BlockOrder(e) ==
    Concat([i \in 1..Len(e.blocks) |->
              [j \in 1..Len(e.blocks[i]) |-> << i, j >>]])

\* the output channels of layer i: expanded_channels of its last block
LayerOutChannels(e, i) ==
    LET last == e.blocks[i][Len(e.blocks[i])]
    IN  expanded_channels(last.out_channels, last.expansion)

\* the block whose forward returned last, once one has
ForwardReturned == pc \in {"shortcut", "return"} /\ applied # << >>
LastBlock ==
    LET a == applied[Len(applied)] IN enc.blocks[a[1]][a[2]]

\* the trace without the addition of the residual
IsLayerOp(m) == m.op # "add"

\* C1: when the forward of a residual block returns, its result is the
\* activation of (blocks(input) + residual), the residual being
\* shortcut(input) when should_apply_shortcut holds and the input itself
\* otherwise; forward has called the shortcut (in that case only), then the
\* blocks, then the addition, then the activation, each once.
C1_ForwardComposition ==
    bpc = "done" =>
        LET res  == IF should_apply_shortcut(blk)
                    THEN ApplySeqVal(blk.shortcut, x0) ELSE x0
            main == ApplySeqVal(blk.blocks, x0)
        IN  /\ heap[bx] = ActVal(blk.activation, main + res)
            /\ steps = (IF should_apply_shortcut(blk)
                        THEN << "shortcut" >> ELSE << >>)
                       \o << "blocks", "add", "activate" >>

C1_Witness ==
    /\ bpc = "done"
    /\ should_apply_shortcut(blk)
    /\ blk.kind = "ResNetBasicBlock"
    /\ blk.activation = "ReLU"
    /\ bres # bx
    /\ ApplySeqVal(blk.blocks, x0) + heap[bres] < 0
    /\ heap[bx] = 0

\* C2: an encoder built by resnet18 has exactly 4 layers of 2, 2, 2, 2
\* blocks and one built by resnet34 exactly 4 layers of 3, 4, 6, 3 blocks,
\* for either block class.
C2_ResnetConfigurations ==
    /\ ctor = "resnet18" =>
         (Len(enc.blocks) = 4 /\ LayerSizes(enc) = << 2, 2, 2, 2 >>)
    /\ ctor = "resnet34" =>
         (Len(enc.blocks) = 4 /\ LayerSizes(enc) = << 3, 4, 6, 3 >>)

C2_Witness ==
    /\ ctor = "resnet34"
    /\ enc.block = "ResNetBottleNeckBlock"
    /\ pc = "return"

\* C3: every layer built with block count n holds exactly n blocks, and a
\* forward that returns has applied the blocks in construction order.
C3_LayerHoldsNBlocks ==
    enc.built =>
        /\ \A i \in 1..Len(enc.blocks) : Len(enc.blocks[i]) = enc.depths[i]
        /\ pc = "return" => applied = BlockOrder(enc)

\* C4: in a built encoder the output channels of layer i+1 are strictly
\* more than the output channels of layer i.
C4_IncreasingFeatures ==
    enc.built =>
        \A i \in 1..(Len(enc.blocks) - 1) :
            LayerOutChannels(enc, i + 1) > LayerOutChannels(enc, i)

\* C5: in every layer the first block has downsampling 2 exactly when the
\* in_channels handed to the layer (those of its first block) differ from
\* its out_channels and 1 otherwise, every later block has downsampling 1,
\* and no module of any block has a stride other than 1 or 2.
C5_Downsampling ==
    enc.built =>
        \A i \in 1..Len(enc.blocks) :
            LET L == enc.blocks[i]
            IN  /\ L[1].downsampling =
                     (IF L[1].in_channels # L[1].out_channels THEN 2 ELSE 1)
                /\ \A j \in 2..Len(L) : L[j].downsampling = 1
                /\ \A j \in 1..Len(L) :
                     /\ L[j].downsampling \in {1, 2}
                     /\ \A k \in 1..Len(L[j].blocks) :
                          L[j].blocks[k].stride \in {1, 2}
                     /\ \A k \in 1..Len(L[j].shortcut) :
                          L[j].shortcut[k].stride \in {1, 2}

C5_Witness ==
    /\ enc.built
    /\ \E i \in 1..Len(enc.blocks) :
         /\ Len(enc.blocks[i]) >= 2
         /\ enc.blocks[i][1].downsampling = 2
         /\ enc.blocks[i][1].blocks[1].stride = 2

C7_ChannelsChain ==
    enc.built =>
        LET f == Concat(enc.blocks)
        IN  /\ enc.gate[1].cout = enc.blocks_sizes[1]
            /\ f[1].in_channels = enc.blocks_sizes[1]
            /\ \A k \in 1..(Len(f) - 1) :
                 f[k + 1].in_channels =
                     expanded_channels(f[k].out_channels, f[k].expansion)

C7_Witness ==
    /\ enc.built
    /\ enc.block = "ResNetBottleNeckBlock"
    /\ Len(enc.blocks_sizes) = Len(enc.depths)
    /\ Len(enc.blocks) >= 2
    /\ Len(enc.blocks[1]) >= 2
    /\ Len(enc.blocks[2]) >= 2

====
